---- MODULE Spec2Model ----
(***************************************************************************)
(* goNEAT: the genome writers (package genetics) and the experiment        *)
(* aggregator / codec (package experiments).                               *)
(*                                                                         *)
(* Text is a sequence of one-character strings, so that the byte counts    *)
(* that drive bufio.Writer are the real ones.                              *)
(***************************************************************************)
EXTENDS Integers, Sequences, FiniteSets, TLC

VARIABLES
    \* -- genetics: one GenomeWriter over one sink
    wr,         \* the GenomeWriter: kind, and its bufio.Writer (buffered bytes, sticky error)
    delivered,  \* what the underlying io.Writer received during the latest WriteGenome call
    calls,      \* WriteGenome calls made on this writer
    last,       \* the latest call: its genome, its returned error, the buffer it started from
    \* -- experiments: Write / Read of one experiment over one gob stream
    pc,         \* "idle", "encoded", "decoded"
    ex,         \* the experiment handed to Encode
    stream,     \* the gob messages the sink holds
    enc,        \* what Encode did: the sink failures it met, each step's error, its result
    dec,        \* what Decode did: the experiment it filled, each step's error, its result
    \* -- experiments: BestOrganism over one experiment
    trials,     \* per trial, the organisms its BestOrganism(false) and (true) yield
    flag,       \* Organism.Flag of every organism
    best,       \* the latest BestOrganism call and what it returned
    \* -- experiments: a collection of experiments
    es,         \* Experiments: per experiment its Id and its trials' execution times
    sorted,     \* whether sort.Sort(es) was the latest operation
    \* -- experiments: the averages over one experiment
    stats,      \* per trial: Duration, AvgEpochDuration(), generations, Solved(), Winner()
    avg         \* the latest aggregation and its outcome

writerVars == <<wr, delivered, calls, last>>
codecVars == <<pc, ex, stream, enc, dec>>
bestVars == <<trials, flag, best>>
orderVars == <<es, sorted>>
avgVars == <<stats, avg>>

vars == <<writerVars, codecVars, bestVars, orderVars, avgVars>>

Nil == "nil"

\* ------------------------------------------------------------------------
\* Bounds
\* ------------------------------------------------------------------------
MaxCalls == 2
MaxNodes == 2
MaxModules == 2
MaxLinks == 2
ManyGenes == 60

\* ------------------------------------------------------------------------
\* fmt verbs and literals
\* ------------------------------------------------------------------------
SGenomeStart == <<"g", "e", "n", "o", "m", "e", "s", "t", "a", "r", "t", " ">>
SGenomeEnd == <<"g", "e", "n", "o", "m", "e", "e", "n", "d", " ">>
STrait == <<"t", "r", "a", "i", "t", " ">>
SNode == <<"n", "o", "d", "e", " ">>
SGene == <<"g", "e", "n", "e", " ">>
SP == <<" ">>
NL == <<"\n">>

DigitChar == <<"0", "1", "2", "3", "4", "5", "6", "7", "8", "9">>

\* %d of a non-negative int
RECURSIVE FmtD(_)
FmtD(n) ==
    IF n < 10 THEN <<DigitChar[n + 1]>>
    ELSE FmtD(n \div 10) \o <<DigitChar[(n % 10) + 1]>>

\* %g of a float64 holding a whole number below 1e6 (the only ones the model
\* uses): the shortest decimal representation is the digits of the number
FmtG(x) == FmtD(x)

\* %t
FmtT(b) == IF b THEN <<"t", "r", "u", "e">> ELSE <<"f", "a", "l", "s", "e">>

\* cast.ToString of a bool
CastToString(b) == IF b THEN "true" ELSE "false"

\* ------------------------------------------------------------------------
\* Collaborators: the activation registry and the neuron type names
\* ------------------------------------------------------------------------
SigmoidSteepenedActivation ==
    <<"S", "i", "g", "m", "o", "i", "d", "S", "t", "e", "e", "p", "e", "n", "e", "d",
      "A", "c", "t", "i", "v", "a", "t", "i", "o", "n">>
TanhActivation ==
    <<"T", "a", "n", "h", "A", "c", "t", "i", "v", "a", "t", "i", "o", "n">>

\* activation types 1 and 2 are registered; any other type is not
ActivationNameFromType(t) ==
    IF t = 1 THEN [name |-> SigmoidSteepenedActivation, err |-> Nil]
    ELSE IF t = 2 THEN [name |-> TanhActivation, err |-> Nil]
    ELSE [name |-> <<>>, err |-> "unsupported activation"]

NeuronTypeName(nt) ==
    IF nt = 0 THEN "HIDN" ELSE IF nt = 1 THEN "INPT" ELSE IF nt = 2 THEN "OUTP" ELSE "BIAS"

\* ------------------------------------------------------------------------
\* bufio.Writer over the sink.  io = [buf, err, sink, ok]: the buffered bytes,
\* the sticky error, the bytes the sink has taken, and whether the sink
\* accepts writes during this call.
\* ------------------------------------------------------------------------
defaultBufSize == 4096

Available(io) == defaultBufSize - Len(io.buf)

Flush(io) ==
    IF io.err THEN io
    ELSE IF Len(io.buf) = 0 THEN io
    ELSE IF io.ok THEN [io EXCEPT !.sink = @ \o io.buf, !.buf = <<>>]
    ELSE [io EXCEPT !.err = TRUE]

RECURSIVE Write(_, _)
Write(io, p) ==
    IF io.err THEN io
    ELSE IF Len(p) > Available(io) THEN
        IF Len(io.buf) = 0
        THEN \* large write, empty buffer: straight to the sink
             IF io.ok THEN [io EXCEPT !.sink = @ \o p] ELSE [io EXCEPT !.err = TRUE]
        ELSE LET n == Available(io)
                 filled == [io EXCEPT !.buf = @ \o SubSeq(p, 1, n)]
             IN  Write(Flush(filled), SubSeq(p, n + 1, Len(p)))
    ELSE [io EXCEPT !.buf = @ \o p]

\* the error a bufio call returns: nil, or the sticky error
IoErr(io) == IF io.err THEN "io" ELSE Nil

\* fmt.Fprintf / Fprint / Fprintln compose the text and hand it over in one Write
Fprintf(io, text) == Write(io, text)

\* ------------------------------------------------------------------------
\* plainGenomeWriter
\* ------------------------------------------------------------------------
RECURSIVE writeTraitParams(_, _, _)
writeTraitParams(io, params, i) ==
    IF i > Len(params) THEN [io |-> io, err |-> Nil]
    ELSE LET w == IF i < Len(params)
                  THEN Fprintf(io, FmtG(params[i]) \o SP)
                  ELSE Fprintf(io, FmtG(params[i]))
         IN  IF IoErr(w) # Nil THEN [io |-> w, err |-> IoErr(w)]
             ELSE writeTraitParams(w, params, i + 1)

writeTrait(io, t) ==
    LET w == Fprintf(io, FmtD(t.Id) \o SP)
    IN  IF IoErr(w) = Nil THEN writeTraitParams(w, t.Params, 1)
        ELSE [io |-> w, err |-> IoErr(w)]

writeNetworkNode(io, n) ==
    LET trait_id == n.Trait
        act == ActivationNameFromType(n.ActivationType)
    IN  IF act.err = Nil
        THEN LET w == Fprintf(io, FmtD(n.Id) \o SP \o FmtD(trait_id) \o SP \o FmtD(n.NodeType)
                                  \o SP \o FmtD(n.NeuronType) \o SP \o act.name)
             IN  [io |-> w, err |-> IoErr(w)]
        ELSE [io |-> io, err |-> act.err]

writeConnectionGene(io, g) ==
    LET link == g.Link
        w == Fprintf(io, FmtD(link.Trait) \o SP \o FmtD(link.InNode) \o SP
                         \o FmtD(link.OutNode) \o SP \o FmtG(link.Weight) \o SP
                         \o FmtT(link.IsRecurrent) \o SP \o FmtD(g.InnovationNum) \o SP
                         \o FmtG(g.MutationNum) \o SP \o FmtT(g.IsEnabled))
    IN  [io |-> w, err |-> IoErr(w)]

RECURSIVE plainTraits(_, _, _)
plainTraits(io, trs, i) ==
    IF i > Len(trs) THEN [io |-> io, err |-> Nil]
    ELSE LET r == writeTrait(Fprintf(io, STrait), trs[i])
         IN  IF r.err # Nil THEN r ELSE plainTraits(Fprintf(r.io, NL), trs, i + 1)

\* the node loop with the buffer flushed after every line
RECURSIVE plainNodesFlushing(_, _, _)
plainNodesFlushing(io, nds, i) ==
    IF i > Len(nds) THEN [io |-> io, err |-> Nil]
    ELSE LET r == writeNetworkNode(Fprintf(io, SNode), nds[i])
         IN  IF r.err # Nil THEN r
             ELSE plainNodesFlushing(Flush(Fprintf(r.io, NL)), nds, i + 1)

RECURSIVE plainNodes(_, _, _)
plainNodes(io, nds, i) ==
    IF i > Len(nds) THEN [io |-> io, err |-> Nil]
    ELSE LET r == writeNetworkNode(Fprintf(io, SNode), nds[i])
         IN  IF r.err # Nil THEN r ELSE plainNodes(Fprintf(r.io, NL), nds, i + 1)

RECURSIVE plainGenes(_, _, _)
plainGenes(io, gns, i) ==
    IF i > Len(gns) THEN [io |-> io, err |-> Nil]
    ELSE LET r == writeConnectionGene(Fprintf(io, SGene), gns[i])
         IN  IF r.err # Nil THEN r ELSE plainGenes(Fprintf(r.io, NL), gns, i + 1)

\* WriteGenome, stage by stage; each stage takes what the one before left.
\* n: the nodes loop is done; the genes loop follows
plainAfterNodes(n, g) == IF n.err # Nil THEN n ELSE plainGenes(n.io, g.Genes, 1)

\* t: the traits loop is done; the nodes loop follows
plainAfterTraits(t, g) ==
    IF t.err # Nil THEN t ELSE plainAfterNodes(plainNodes(t.io, g.Nodes, 1), g)

\* w: the genomestart line is written; its error is tested, the traits loop follows
plainAfterStart(w, g) ==
    IF IoErr(w) # Nil THEN [io |-> w, err |-> IoErr(w)]
    ELSE plainAfterTraits(plainTraits(w, g.Traits, 1), g)

\* WriteGenome up to, not including, the genomeend line
plainRecordBody(io, g) == plainAfterStart(Fprintf(io, SGenomeStart \o FmtD(g.Id) \o NL), g)

\* f: the writer after wr.w.Flush(), whose error WriteGenome returns
plainFlushed(f, early) == [io |-> f, err |-> IoErr(f), early |-> early]

\* b: the record body is done; the genomeend line and the flush follow.
\* early: the bytes the sink holds when the genomeend line is about to be composed
plainGenomeEnd(b, g) ==
    IF b.err # Nil THEN [io |-> b.io, err |-> b.err, early |-> Len(b.io.sink)]
    ELSE plainFlushed(Flush(Fprintf(b.io, SGenomeEnd \o FmtD(g.Id) \o NL)), Len(b.io.sink))

plainWriteGenome(io, g) == plainGenomeEnd(plainRecordBody(io, g), g)

\* ------------------------------------------------------------------------
\* yamlGenomeWriter.  A map[string]interface{} is a function on its keys;
\* the document yaml.v2 serialises is carried through the buffer as one unit.
\* ------------------------------------------------------------------------
encodeGenomeTrait(trait) == [id |-> trait.Id, params |-> trait.Params]

encodeNetworkNode(node) ==
    LET act == ActivationNameFromType(node.ActivationType)
    IN  [map |-> [id |-> node.Id, trait_id |-> node.Trait,
                  type |-> NeuronTypeName(node.NeuronType), activation |-> act.name],
         err |-> act.err]

encodeConnectionGene(gene) ==
    [trait_id |-> gene.Link.Trait, src_id |-> gene.Link.InNode, tgt_id |-> gene.Link.OutNode,
     innov_num |-> gene.InnovationNum, weight |-> gene.Link.Weight,
     mut_num |-> gene.MutationNum, recurrent |-> CastToString(gene.Link.IsRecurrent),
     enabled |-> CastToString(gene.IsEnabled)]

\* encodeModuleLink counting the ports from one
encodeModuleLinkOneBased(id, order) == [id |-> id, order |-> order + 1]

encodeModuleLink(id, order) == [id |-> id, order |-> order]

\* encodeControlGene that takes the activation name without looking at the error
encodeControlGeneUnchecked(gene) ==
    LET act == ActivationNameFromType(gene.ControlNode.ActivationType)
    IN  [map |->
            [id |-> gene.ControlNode.Id, trait_id |-> gene.ControlNode.Trait,
             innov_num |-> gene.InnovationNum, mut_num |-> gene.MutationNum,
             enabled |-> gene.IsEnabled, activation |-> act.name,
             inputs |-> [i \in 1..Len(gene.ControlNode.Incoming) |->
                           encodeModuleLink(gene.ControlNode.Incoming[i].InNode, i - 1)],
             outputs |-> [i \in 1..Len(gene.ControlNode.Outgoing) |->
                           encodeModuleLink(gene.ControlNode.Outgoing[i].OutNode, i - 1)]],
         err |-> Nil]

encodeControlGene(gene) ==
    LET act == ActivationNameFromType(gene.ControlNode.ActivationType)
    IN  IF act.err # Nil THEN [map |-> Nil, err |-> act.err]
        ELSE [map |->
                [id |-> gene.ControlNode.Id, trait_id |-> gene.ControlNode.Trait,
                 innov_num |-> gene.InnovationNum, mut_num |-> gene.MutationNum,
                 enabled |-> gene.IsEnabled, activation |-> act.name,
                 inputs |-> [i \in 1..Len(gene.ControlNode.Incoming) |->
                               encodeModuleLink(gene.ControlNode.Incoming[i].InNode, i - 1)],
                 outputs |-> [i \in 1..Len(gene.ControlNode.Outgoing) |->
                               encodeModuleLink(gene.ControlNode.Outgoing[i].OutNode, i - 1)]],
              err |-> Nil]

RECURSIVE yamlNodes(_, _, _)
yamlNodes(nds, i, nodes) ==
    IF i > Len(nds) THEN [maps |-> nodes, err |-> Nil]
    ELSE LET r == encodeNetworkNode(nds[i])
         IN  IF r.err # Nil THEN [maps |-> nodes, err |-> r.err]
             ELSE yamlNodes(nds, i + 1, Append(nodes, r.map))

RECURSIVE yamlModules(_, _, _)
yamlModules(cgs, i, modules) ==
    IF i > Len(cgs) THEN [maps |-> modules, err |-> Nil]
    ELSE LET r == encodeControlGene(cgs[i])
         IN  IF r.err # Nil THEN [maps |-> modules, err |-> r.err]
             ELSE yamlModules(cgs, i + 1, Append(modules, r.map))

yamlWriteGenome(io, g) ==
    LET traits == [i \in 1..Len(g.Traits) |-> encodeGenomeTrait(g.Traits[i])]
        nodes == yamlNodes(g.Nodes, 1, <<>>)
        genes == [i \in 1..Len(g.Genes) |-> encodeConnectionGene(g.Genes[i])]
        modules == yamlModules(g.ControlGenes, 1, <<>>)
        g_map == [id |-> g.Id, traits |-> traits, nodes |-> nodes.maps, genes |-> genes]
        r_map == IF Len(g.ControlGenes) > 0
                 THEN [genome |-> ("modules" :> modules.maps) @@ g_map]
                 ELSE [genome |-> g_map]
    IN  IF nodes.err # Nil THEN [io |-> io, err |-> nodes.err]
        ELSE IF Len(g.ControlGenes) > 0 /\ modules.err # Nil THEN [io |-> io, err |-> modules.err]
        ELSE LET e == Write(io, <<r_map>>)
             IN  IF IoErr(e) = Nil
                 THEN LET f == Flush(e) IN [io |-> f, err |-> IoErr(f)]
                 ELSE [io |-> e, err |-> IoErr(e)]

\* ------------------------------------------------------------------------
\* The genomes handed to the writers
\* ------------------------------------------------------------------------
GenomeIds == {1, 2}

Trait(id) == [Id |-> id, Params |-> <<3, 7>>]

\* the first node is an input sensor, the others output neurons; no trait attached
NNode(id, act) ==
    [Id |-> id, Trait |-> 0, NodeType |-> IF id = 1 THEN 1 ELSE 0,
     NeuronType |-> IF id = 1 THEN 1 ELSE 2, ActivationType |-> act]

Gene(k, trait) ==
    [Link |-> [Trait |-> trait, InNode |-> 1, OutNode |-> 2, Weight |-> 5,
               IsRecurrent |-> FALSE],
     InnovationNum |-> k, MutationNum |-> 0, IsEnabled |-> (k % 2 = 1)]

\* a gene of a large, long-evolved genome: wide ids, innovation numbers and weights
BulkGene(k) ==
    [Link |-> [Trait |-> 1000000000, InNode |-> 1000000000 + k, OutNode |-> 2000000000 + k,
               Weight |-> 999999, IsRecurrent |-> FALSE],
     InnovationNum |-> 1000000000 + k, MutationNum |-> 999999, IsEnabled |-> (k % 2 = 1)]

\* a control gene with k incoming and k outgoing links; the linked node ids
\* run against the list order
Module(act, k) ==
    [ControlNode |->
        [Id |-> 10 + k + act, Trait |-> 0, ActivationType |-> act,
         Incoming |-> [j \in 1..k |-> [InNode |-> k + 1 - j]],
         Outgoing |-> [j \in 1..k |-> [OutNode |-> 9 - j]]],
     InnovationNum |-> 3, MutationNum |-> 1, IsEnabled |-> (k % 2 = 0)]

\* activation types per node: 1 is registered, 0 is not
ActLists == UNION {[1..n -> {0, 1}] : n \in 0..MaxNodes}

Modules == {Module(2, MaxLinks), Module(2, 0), Module(0, 1)}

ModuleLists == UNION {[1..n -> Modules] : n \in 0..MaxModules}

Genome(id, acts, ng, cgs) ==
    [Id |-> id,
     Traits |-> IF ng > 0 THEN <<Trait(1)>> ELSE <<>>,
     Nodes |-> [i \in 1..Len(acts) |-> NNode(i, acts[i])],
     Genes |-> IF ng > 1 THEN [k \in 1..ng |-> BulkGene(k)] ELSE [k \in 1..ng |-> Gene(k, 1)],
     ControlGenes |-> cgs]

PlainGenomes ==
    {Genome(id, acts, 1, <<>>) : id \in GenomeIds, acts \in ActLists}
    \cup {Genome(1, <<>>, 0, <<>>), Genome(1, <<>>, ManyGenes, <<>>)}

YamlGenomes ==
    {Genome(1, acts, 1, <<>>) : acts \in ActLists}
    \cup {Genome(2, <<1>>, 1, cgs) : cgs \in ModuleLists}

\* ------------------------------------------------------------------------
\* The writer: construction and the WriteGenome calls
\* ------------------------------------------------------------------------
\* a part of the program a specification leaves alone
IdleWriter ==
    /\ wr = [kind |-> "none", buf |-> <<>>, err |-> FALSE]
    /\ delivered = <<>>
    /\ calls = 0
    /\ last = [op |-> "none"]

IdleCodec ==
    /\ pc = "idle"
    /\ ex = [Id |-> 0, Name |-> "", Trials |-> <<>>]
    /\ stream = <<>>
    /\ enc = [op |-> "none"]
    /\ dec = [op |-> "none"]

IdleBest ==
    /\ trials = <<>>
    /\ flag = <<>>
    /\ best = [op |-> "none"]

IdleOrder ==
    /\ es = <<>>
    /\ sorted = FALSE

IdleAvg ==
    /\ stats = <<>>
    /\ avg = [op |-> "none"]

InitWriter == IdleWriter /\ IdleCodec /\ IdleBest /\ IdleOrder /\ IdleAvg

NewGenomeWriter(encoding) ==
    /\ wr.kind = "none"
    /\ IF encoding \in {"plain", "yaml"}
       THEN /\ wr' = [kind |-> encoding, buf |-> <<>>, err |-> FALSE]
            /\ last' = [op |-> "new", ret |-> Nil]
       ELSE /\ wr' = wr
            /\ last' = [op |-> "new", ret |-> "ErrUnsupportedGenomeEncoding"]
    /\ UNCHANGED <<delivered, calls, codecVars, bestVars, orderVars, avgVars>>

PlainWriteGenome(g, sinkOk) ==
    /\ wr.kind = "plain"
    /\ calls < MaxCalls
    /\ \E r \in {plainWriteGenome([buf |-> wr.buf, err |-> wr.err, sink |-> <<>>,
                                     ok |-> sinkOk], g)} :
           /\ wr' = [wr EXCEPT !.buf = r.io.buf, !.err = r.io.err]
           /\ delivered' = r.io.sink
           /\ last' = [op |-> "plain", g |-> g, ret |-> r.err, buf0 |-> wr.buf,
                       early |-> r.early]
    /\ calls' = calls + 1
    /\ UNCHANGED <<codecVars, bestVars, orderVars, avgVars>>

YamlWriteGenome(g, sinkOk) ==
    /\ wr.kind = "yaml"
    /\ calls < MaxCalls
    /\ \E r \in {yamlWriteGenome([buf |-> wr.buf, err |-> wr.err, sink |-> <<>>,
                                    ok |-> sinkOk], g)} :
           /\ wr' = [wr EXCEPT !.buf = r.io.buf, !.err = r.io.err]
           /\ delivered' = r.io.sink
           /\ last' = [op |-> "yaml", g |-> g, ret |-> r.err, buf0 |-> wr.buf]
    /\ calls' = calls + 1
    /\ UNCHANGED <<codecVars, bestVars, orderVars, avgVars>>

NextWriter ==
    \/ \E encoding \in {"plain", "yaml", "json"} : NewGenomeWriter(encoding)
    \/ /\ wr.kind = "plain" /\ calls < MaxCalls
       /\ \E g \in PlainGenomes, sinkOk \in BOOLEAN : PlainWriteGenome(g, sinkOk)
    \/ /\ wr.kind = "yaml" /\ calls < MaxCalls
       /\ \E g \in YamlGenomes, sinkOk \in BOOLEAN : YamlWriteGenome(g, sinkOk)

SpecWriter == InitWriter /\ [][NextWriter]_vars

\* ------------------------------------------------------------------------
\* What the claims speak about
\* ------------------------------------------------------------------------
RECURSIVE Flatten(_)
Flatten(lines) == IF lines = <<>> THEN <<>> ELSE Head(lines) \o Flatten(Tail(lines))

RECURSIVE JoinParams(_)
JoinParams(ps) ==
    IF ps = <<>> THEN <<>>
    ELSE IF Len(ps) = 1 THEN FmtG(ps[1])
    ELSE FmtG(Head(ps)) \o SP \o JoinParams(Tail(ps))

\* the record lines of the plain-text grammar
TraitLine(t) == STrait \o FmtD(t.Id) \o SP \o JoinParams(t.Params) \o NL

NodeLine(n) ==
    SNode \o FmtD(n.Id) \o SP \o FmtD(n.Trait) \o SP \o FmtD(n.NodeType) \o SP
    \o FmtD(n.NeuronType) \o SP \o ActivationNameFromType(n.ActivationType).name \o NL

GeneLine(g) ==
    SGene \o FmtD(g.Link.Trait) \o SP \o FmtD(g.Link.InNode) \o SP \o FmtD(g.Link.OutNode)
    \o SP \o FmtG(g.Link.Weight) \o SP \o FmtT(g.Link.IsRecurrent) \o SP
    \o FmtD(g.InnovationNum) \o SP \o FmtG(g.MutationNum) \o SP \o FmtT(g.IsEnabled) \o NL

Resolvable(t) == t \in {1, 2}

BadNode(g) == \E i \in 1..Len(g.Nodes) : ~Resolvable(g.Nodes[i].ActivationType)

BadControlNode(g) ==
    \E i \in 1..Len(g.ControlGenes) : ~Resolvable(g.ControlGenes[i].ControlNode.ActivationType)

\* the index of the first node whose activation does not resolve, 0 if none
FirstBad(g) ==
    IF BadNode(g)
    THEN CHOOSE i \in 1..Len(g.Nodes) :
            /\ ~Resolvable(g.Nodes[i].ActivationType)
            /\ \A j \in 1..(i - 1) : Resolvable(g.Nodes[j].ActivationType)
    ELSE 0

\* genomestart .. genomeend of a genome whose activations all resolve
PlainRecord(g) ==
    SGenomeStart \o FmtD(g.Id) \o NL
    \o Flatten([i \in 1..Len(g.Traits) |-> TraitLine(g.Traits[i])])
    \o Flatten([i \in 1..Len(g.Nodes) |-> NodeLine(g.Nodes[i])])
    \o Flatten([i \in 1..Len(g.Genes) |-> GeneLine(g.Genes[i])])
    \o SGenomeEnd \o FmtD(g.Id) \o NL

\* every byte one call composes: the whole record, or the lines up to the
\* node that does not resolve and the "node " that opens its line
PlainComposed(g) ==
    IF ~BadNode(g) THEN PlainRecord(g)
    ELSE SGenomeStart \o FmtD(g.Id) \o NL
         \o Flatten([i \in 1..Len(g.Traits) |-> TraitLine(g.Traits[i])])
         \o Flatten([i \in 1..(FirstBad(g) - 1) |-> NodeLine(g.Nodes[i])])
         \o SNode

\* occurrences of "genomeend " in a text
CountEnd(s) == Cardinality({i \in 1..(Len(s) - 9) : SubSeq(s, i, i + 9) = SGenomeEnd})

\* C2: a node whose activation does not resolve (either format), or a control
\* node whose activation does not resolve (YAML), makes WriteGenome return an
\* error, and no completion marker of that genome exists: the plain text the
\* sink received and the buffer still holds has gained no genomeend line, and
\* the YAML writer has composed no document at all.
C2_AbortNoMarker ==
    /\ (last.op = "plain" /\ BadNode(last.g)) =>
          /\ last.ret # Nil
          /\ CountEnd(delivered \o wr.buf) = CountEnd(last.buf0)
    /\ (last.op = "yaml" /\ (BadNode(last.g) \/ BadControlNode(last.g))) =>
          /\ last.ret # Nil
          /\ delivered = <<>>
          /\ wr.buf = last.buf0

C2_Witness ==
    /\ last.op = "yaml"
    /\ ~BadNode(last.g)
    /\ Len(last.g.ControlGenes) = 2
    /\ Resolvable(last.g.ControlGenes[1].ControlNode.ActivationType)
    /\ ~Resolvable(last.g.ControlGenes[2].ControlNode.ActivationType)
    /\ last.ret = "unsupported activation"

\* C4: a YAML document written for a genome without control genes has no
\* modules key; with N > 0 control genes it has modules with N entries, the
\* i-th encoding the i-th control gene, whose inputs and outputs list the
\* incoming and outgoing links in list order with order 0..k-1 and 0..m-1.
C4_Modules ==
    (last.op = "yaml" /\ last.ret = Nil) =>
        /\ Len(delivered) > 0
        /\ LET doc == delivered[Len(delivered)].genome
               cgs == last.g.ControlGenes
           IN  IF Len(cgs) = 0 THEN "modules" \notin DOMAIN doc
               ELSE /\ "modules" \in DOMAIN doc
                    /\ Len(doc.modules) = Len(cgs)
                    /\ \A i \in 1..Len(cgs) :
                        LET m == doc.modules[i]
                            cn == cgs[i].ControlNode
                        IN  /\ m.id = cn.Id
                            /\ m.trait_id = cn.Trait
                            /\ m.innov_num = cgs[i].InnovationNum
                            /\ m.mut_num = cgs[i].MutationNum
                            /\ m.enabled = cgs[i].IsEnabled
                            /\ m.activation = ActivationNameFromType(cn.ActivationType).name
                            /\ Len(m.inputs) = Len(cn.Incoming)
                            /\ Len(m.outputs) = Len(cn.Outgoing)
                            /\ \A j \in 1..Len(cn.Incoming) :
                                  m.inputs[j] = [id |-> cn.Incoming[j].InNode, order |-> j - 1]
                            /\ \A j \in 1..Len(cn.Outgoing) :
                                  m.outputs[j] = [id |-> cn.Outgoing[j].OutNode, order |-> j - 1]

C4_Witness ==
    /\ last.op = "yaml"
    /\ last.ret = Nil
    /\ Len(last.g.ControlGenes) = 2
    /\ Len(last.g.ControlGenes[1].ControlNode.Incoming) = MaxLinks
    /\ Len(last.g.ControlGenes[2].ControlNode.Outgoing) = MaxLinks
    /\ Len(delivered) = 1

\* C9, as stated: in a plain-text call no byte reaches the sink before the
\* genomeend line is in the buffer, whatever the size of the genome (so a call
\* that fails earlier leaves the sink without a byte).
C9_NoByteBeforeGenomeEnd == last.op = "plain" => last.early = 0

\* C9, amended: the same, for a call whose composed bytes fit, with the bytes
\* already pending, in the buffer (4096 bytes): nothing reaches the sink
\* before genomeend is buffered, a failed call delivers nothing and keeps what
\* it composed in the buffer, a successful call delivers in its one flush.
C9_NoByteBeforeGenomeEndWhenFits ==
    (last.op = "plain" /\ Len(last.buf0) + Len(PlainComposed(last.g)) <= defaultBufSize) =>
        /\ last.early = 0
        /\ last.ret # Nil => delivered = <<>>
        /\ last.ret = "unsupported activation" => wr.buf = last.buf0 \o PlainComposed(last.g)
        /\ last.ret = Nil => Len(delivered) >= Len(PlainRecord(last.g)) /\ wr.buf = <<>>

C9_Witness ==
    /\ last.op = "plain"
    /\ last.ret = "unsupported activation"
    /\ FirstBad(last.g) = 2
    /\ Len(last.g.Traits) = 1
    /\ delivered = <<>>
    /\ Len(wr.buf) > Len(last.buf0)

\* C10, as stated: every plain-text call that returns success hands the sink
\* exactly its own genome's record, genomestart through genomeend, and
\* nothing composed by an earlier call.
C10_OwnRecordOnly ==
    (last.op = "plain" /\ last.ret = Nil) => delivered = PlainRecord(last.g)

\* ------------------------------------------------------------------------
\* experiments: the gob persistence of an Experiment
\* ------------------------------------------------------------------------
MaxTrials == 2
MaxStamps == 3

IntMsg(v) == [t |-> "int", v |-> v]
StringMsg(v) == [t |-> "string", v |-> v]

\* gob.Encoder.Encode: e = [out, n, fails, err].  The n-th Encode call of the
\* encoder fails when the sink fails under it; a failed call sends nothing,
\* and the encoder forgets the error at the next call.
gobEncode(e, msg) ==
    IF (e.n + 1) \in e.fails
    THEN [e EXCEPT !.n = @ + 1, !.err = "io"]
    ELSE [e EXCEPT !.n = @ + 1, !.out = Append(@, msg), !.err = Nil]

\* gob.Decoder.Decode into a variable of type ty: d = [in, pos, v, err].  It
\* takes the next message; a message of another type is consumed and refused,
\* and the end of the stream is an error.  v is the value on success.
gobDecode(d, ty) ==
    IF d.pos > Len(d.in) THEN [d EXCEPT !.err = "EOF"]
    ELSE IF d.in[d.pos].t # ty THEN [d EXCEPT !.pos = @ + 1, !.err = "type mismatch"]
    ELSE [d EXCEPT !.pos = @ + 1, !.v = d.in[d.pos].v, !.err = Nil]

\* Trial's own codec: its id and its number of generations are persisted,
\* its Duration is not
TrialEncode(e, t) ==
    LET a == gobEncode(e, IntMsg(t.Id))
    IN  IF a.err # Nil THEN a ELSE gobEncode(a, IntMsg(t.Generations))

TrialDecode(d) ==
    LET a == gobDecode(d, "int")
        b == gobDecode(a, "int")
    IN  IF a.err # Nil THEN [d |-> a, trial |-> [Id |-> 0, Generations |-> 0, Duration |-> 0]]
        ELSE IF b.err # Nil
        THEN [d |-> b, trial |-> [Id |-> a.v, Generations |-> 0, Duration |-> 0]]
        ELSE [d |-> b, trial |-> [Id |-> a.v, Generations |-> b.v, Duration |-> 0]]

\* the loop of Encode over the trials; log collects the error of every step taken
RECURSIVE encodeTrials(_, _, _, _)
encodeTrials(e, ts, i, log) ==
    IF i > Len(ts) THEN [e |-> e, err |-> e.err, log |-> log]
    ELSE LET t == TrialEncode(e, ts[i])
         IN  IF t.err # Nil THEN [e |-> t, err |-> t.err, log |-> Append(log, t.err)]
             ELSE encodeTrials(t, ts, i + 1, Append(log, t.err))

\* Encode with the name written ahead of the id
ExperimentEncodeNameFirst(e, x) ==
    LET a == gobEncode(e, StringMsg(x.Name))
        b == gobEncode(a, IntMsg(x.Id))
        c == gobEncode(b, IntMsg(Len(x.Trials)))
    IN  encodeTrials(c, x.Trials, 1, <<a.err, b.err, c.err>>)

ExperimentEncode(e, x) ==
    LET a == gobEncode(e, IntMsg(x.Id))
        b == gobEncode(a, StringMsg(x.Name))
        c == gobEncode(b, IntMsg(Len(x.Trials)))
    IN  encodeTrials(c, x.Trials, 1, <<a.err, b.err, c.err>>)

\* the loop of Decode over the t_num trials
RECURSIVE decodeTrials(_, _, _, _, _)
decodeTrials(d, t_num, i, ts, log) ==
    IF i > t_num THEN [d |-> d, err |-> d.err, trials |-> ts, log |-> log]
    ELSE LET r == TrialDecode(d)
         IN  decodeTrials(r.d, t_num, i + 1, Append(ts, r.trial), Append(log, r.d.err))

ExperimentDecode(d, x) ==
    LET a == gobDecode(d, "int")
        id == IF a.err = Nil THEN a.v ELSE x.Id
        b == gobDecode(a, "string")
        name == IF b.err = Nil THEN b.v ELSE x.Name
        c == gobDecode(b, "int")
        log == <<a.err, b.err, c.err>>
    IN  IF c.err # Nil
        THEN [ex |-> [Id |-> id, Name |-> name, Trials |-> x.Trials], err |-> c.err, log |-> log]
        ELSE LET r == decodeTrials(c, c.v, 1, <<>>, log)
             IN  [ex |-> [Id |-> id, Name |-> name, Trials |-> r.trials],
                  err |-> r.err, log |-> r.log]

ExperimentIds == {7, 8}

TrialValues ==
    {[Id |-> i, Generations |-> n, Duration |-> 5 * n] : i \in 0..1, n \in 0..1}

TrialLists == UNION {[1..n -> TrialValues] : n \in 0..MaxTrials}

ExperimentValues ==
    {[Id |-> i, Name |-> "run-A", Trials |-> ts] : i \in ExperimentIds, ts \in TrialLists}

\* the Encode calls an experiment's Encode makes on the gob encoder
EncodeCalls(x) == 1..(3 + 2 * Len(x.Trials))

InitCodec == IdleWriter /\ IdleCodec /\ IdleBest /\ IdleOrder /\ IdleAvg

\* Experiment.Write: a new gob encoder over the sink, and Encode
ExperimentWrite(x, fails) ==
    /\ pc = "idle"
    /\ LET r == ExperimentEncode([out |-> <<>>, n |-> 0, fails |-> fails, err |-> Nil], x)
       IN  /\ stream' = r.e.out
           /\ enc' = [op |-> "Encode", fails |-> fails, log |-> r.log, ret |-> r.err]
    /\ ex' = x
    /\ pc' = "encoded"
    /\ UNCHANGED <<dec, writerVars, bestVars, orderVars, avgVars>>

\* Experiment.Read: a new gob decoder over the stream, and Decode into a
\* fresh Experiment
ExperimentRead ==
    /\ pc = "encoded"
    /\ LET r == ExperimentDecode([in |-> stream, pos |-> 1, v |-> 0, err |-> Nil],
                                 [Id |-> 0, Name |-> "", Trials |-> <<>>])
       IN  dec' = [op |-> "Decode", ex |-> r.ex, log |-> r.log, ret |-> r.err]
    /\ pc' = "decoded"
    /\ UNCHANGED <<ex, stream, enc, writerVars, bestVars, orderVars, avgVars>>

NextCodec ==
    \/ /\ pc = "idle"
       /\ \E x \in ExperimentValues : \E fails \in SUBSET EncodeCalls(x) :
             ExperimentWrite(x, fails)
    \/ ExperimentRead

SpecCodec == InitCodec /\ [][NextCodec]_vars

\* the trial a reader gets back from what the trial's own encode wrote
TrialWire(t) == TrialEncode([out |-> <<>>, n |-> 0, fails |-> {}, err |-> Nil], t).out

TrialRoundTrip(t) == TrialDecode([in |-> TrialWire(t), pos |-> 1, v |-> 0, err |-> Nil]).trial

\* the steps of a log that failed
Failed(log) == {k \in 1..Len(log) : log[k] # Nil}

FirstFailed(log) == CHOOSE k \in Failed(log) : \A j \in Failed(log) : k <= j

\* C1: Encode onto a sound stream, then Decode from it into a fresh
\* Experiment, gives the same id, the same name and as many trials, the i-th
\* being what the trial's decode makes of what the i-th trial's encode
\* wrote; the stream holds id, name, trial count, trial 1 .. trial n in that
\* order.
C1_RoundTrip ==
    (pc = "decoded" /\ enc.fails = {}) =>
        /\ enc.ret = Nil
        /\ dec.ret = Nil
        /\ dec.ex.Id = ex.Id
        /\ dec.ex.Name = ex.Name
        /\ Len(dec.ex.Trials) = Len(ex.Trials)
        /\ \A i \in 1..Len(ex.Trials) : dec.ex.Trials[i] = TrialRoundTrip(ex.Trials[i])
        /\ stream = <<IntMsg(ex.Id), StringMsg(ex.Name), IntMsg(Len(ex.Trials))>>
                    \o Flatten([i \in 1..Len(ex.Trials) |-> TrialWire(ex.Trials[i])])

C1_Witness ==
    /\ pc = "decoded"
    /\ enc.fails = {}
    /\ ex.Id = 7
    /\ Len(ex.Trials) = 2
    /\ ex.Trials[1] # ex.Trials[2]
    /\ ex.Trials[1].Duration > 0
    /\ dec.ex.Trials[1] # ex.Trials[1]
    /\ Len(dec.ex.Trials) = 2

\* C6, as stated: Decode returns an error as soon as reading the id, the
\* name, the trial count or any trial fails, reads nothing after it, and
\* returns nil only if every read succeeded.
C6_DecodeSurfacesEveryFailure ==
    dec.op = "Decode" =>
        /\ Failed(dec.log) # {} => dec.ret # Nil /\ Len(dec.log) = FirstFailed(dec.log)
        /\ dec.ret = Nil => Failed(dec.log) = {}

\* C7, as stated: Encode returns an error as soon as writing the id, the
\* name, the trial count or any trial fails, writes nothing after it, and
\* returns nil only if every write succeeded.
C7_EncodeSurfacesEveryFailure ==
    enc.op = "Encode" =>
        /\ Failed(enc.log) # {} => enc.ret # Nil /\ Len(enc.log) = FirstFailed(enc.log)
        /\ enc.ret = Nil => Failed(enc.log) = {}

\* ------------------------------------------------------------------------
\* experiments: BestOrganism
\* ------------------------------------------------------------------------
\* the organisms of the trials' populations, by their Fitness
OrgFitness == <<1, 2, 2>>

Orgs == DOMAIN OrgFitness

NoOrg == 0

\* genetics.Organisms.Less: by fitness
OrganismsLess(a, b) == OrgFitness[a] < OrgFitness[b]

\* Trial.BestOrganism(onlySolvers): the trial's best organism, or its best
\* among the solvers
TrialBestOrganism(t, onlySolvers) ==
    IF onlySolvers THEN [org |-> t.solver, found |-> t.solver # NoOrg]
    ELSE [org |-> t.best, found |-> t.best # NoOrg]

\* a trial's best solver is one of its organisms, so its best is at least as fit
BestTrialViews ==
    {t \in [best : Orgs \cup {NoOrg}, solver : Orgs \cup {NoOrg}] :
        t.solver # NoOrg => (t.best # NoOrg /\ OrgFitness[t.solver] <= OrgFitness[t.best])}

BestTrialLists == UNION {[1..n -> BestTrialViews] : n \in 0..MaxTrials}

Perms(n) == {f \in [1..n -> 1..n] : \A i, j \in 1..n : f[i] = f[j] => i = j}

\* the orders Sort may leave the organisms in: ascending by Less
SortOrganisms(orgs) ==
    {p \in {[k \in 1..Len(orgs) |-> orgs[f[k]]] : f \in Perms(Len(orgs))} :
        \A i, j \in 1..Len(orgs) : i < j => ~OrganismsLess(p[j], p[i])}

\* sort.Sort(sort.Reverse(orgs)): Less(i, j) of the reverse is Less(j, i)
SortReverseOrganisms(orgs) ==
    {p \in {[k \in 1..Len(orgs) |-> orgs[f[k]]] : f \in Perms(Len(orgs))} :
        \A i, j \in 1..Len(orgs) : i < j => ~OrganismsLess(p[i], p[j])}

\* the loop of BestOrganism: i is the Go index of the trial, r = [orgs, flag]
RECURSIVE collectBest(_, _, _, _)
collectBest(ts, i, onlySolvers, r) ==
    IF i >= Len(ts) THEN r
    ELSE LET b == TrialBestOrganism(ts[i + 1], onlySolvers)
         IN  IF b.found
             THEN collectBest(ts, i + 1, onlySolvers,
                              [orgs |-> Append(r.orgs, b.org),
                               flag |-> [r.flag EXCEPT ![b.org] = i]])
             ELSE collectBest(ts, i + 1, onlySolvers, r)

InitBest ==
    /\ IdleWriter /\ IdleCodec /\ IdleOrder /\ IdleAvg
    /\ trials \in BestTrialLists
    /\ flag = [o \in Orgs |-> 0]
    /\ best = [op |-> "none"]

BestOrganism(onlySolvers) ==
    /\ LET r == collectBest(trials, 0, onlySolvers, [orgs |-> <<>>, flag |-> flag])
       IN  /\ flag' = r.flag
           /\ IF Len(r.orgs) > 0
              THEN \E p \in SortReverseOrganisms(r.orgs) :
                      best' = [op |-> "BestOrganism", onlySolvers |-> onlySolvers,
                               org |-> p[1], id |-> r.flag[p[1]], found |-> TRUE]
              ELSE best' = [op |-> "BestOrganism", onlySolvers |-> onlySolvers,
                            org |-> NoOrg, id |-> -1, found |-> FALSE]
    /\ UNCHANGED <<trials, writerVars, codecVars, orderVars, avgVars>>

NextBest == \E onlySolvers \in BOOLEAN : BestOrganism(onlySolvers)

SpecBest == InitBest /\ [][NextBest]_vars

\* the Go indices of the trials that yield a candidate under the filter
Candidates(onlySolvers) ==
    {i \in 0..(Len(trials) - 1) : TrialBestOrganism(trials[i + 1], onlySolvers).found}

\* C3: BestOrganism(onlySolvers) returns not-found (nil, -1, false) when no
\* trial yields a candidate under the filter; otherwise an organism whose
\* fitness is the maximum over the trials' candidates, with the index of a
\* trial that yielded exactly that organism.
C3_BestOrganism ==
    best.op = "BestOrganism" =>
        LET c == Candidates(best.onlySolvers)
        IN  IF c = {}
            THEN best.org = NoOrg /\ best.id = -1 /\ ~best.found
            ELSE /\ best.found
                 /\ best.org \in Orgs
                 /\ \A i \in c :
                      OrgFitness[TrialBestOrganism(trials[i + 1], best.onlySolvers).org]
                          <= OrgFitness[best.org]
                 /\ best.id \in c
                 /\ TrialBestOrganism(trials[best.id + 1], best.onlySolvers).org = best.org

C3_Witness ==
    /\ best.op = "BestOrganism"
    /\ best.onlySolvers
    /\ Len(trials) = 2
    /\ trials[1].solver # NoOrg
    /\ trials[2].solver # NoOrg
    /\ OrgFitness[trials[1].solver] > OrgFitness[trials[2].solver]
    /\ best.id = 0

\* ------------------------------------------------------------------------
\* experiments: Experiments, the sortable list
\* ------------------------------------------------------------------------
\* a time.Time is a number of ticks; the zero Time is 0
ZeroTime == 0

ExecutionTimes == {1, 2}

OrderedIds == {1, 3, 5}

TimeLists == UNION {[1..n -> ExecutionTimes] : n \in 0..MaxTrials}

\* an experiment, seen through its Id and its trials' LastExecuted(); a
\* collection holds three experiments with at most MaxStamps trials in all
OrderedExperiments == [Id : OrderedIds, Trials : TimeLists]

RECURSIVE lastExecutedFrom(_, _, _)
lastExecutedFrom(ts, i, u) ==
    IF i > Len(ts) THEN u
    ELSE lastExecutedFrom(ts, i + 1, IF u < ts[i] THEN ts[i] ELSE u)

LastExecuted(e) == lastExecutedFrom(e.Trials, 1, ZeroTime)

\* Less by LastExecuted alone
ExperimentsLessNoTieBreak(l, i, j) == LastExecuted(l[i]) < LastExecuted(l[j])

ExperimentsLess(l, i, j) ==
    LET ui == LastExecuted(l[i])
        uj == LastExecuted(l[j])
    IN  IF ui = uj THEN l[i].Id < l[j].Id ELSE ui < uj

ExperimentsSwap(l, i, j) == [l EXCEPT ![i] = l[j], ![j] = l[i]]

\* the orders sort.Sort may leave the list in
SortExperiments(l) ==
    {p \in {[k \in 1..Len(l) |-> l[f[k]]] : f \in Perms(Len(l))} :
        \A i, j \in 1..Len(l) : i < j => ~ExperimentsLess(p, j, i)}

InitOrder ==
    /\ IdleWriter /\ IdleCodec /\ IdleBest /\ IdleAvg
    /\ es \in [1..3 -> OrderedExperiments]
    /\ Len(es[1].Trials) + Len(es[2].Trials) + Len(es[3].Trials) <= MaxStamps
    /\ sorted = FALSE

Swap(i, j) ==
    /\ es' = ExperimentsSwap(es, i, j)
    /\ sorted' = FALSE
    /\ UNCHANGED <<writerVars, codecVars, bestVars, avgVars>>

Sort ==
    /\ \E p \in SortExperiments(es) : es' = p
    /\ sorted' = TRUE
    /\ UNCHANGED <<writerVars, codecVars, bestVars, avgVars>>

NextOrder ==
    \/ \E i, j \in 1..Len(es) : i < j /\ Swap(i, j)
    \/ Sort

SpecOrder == InitOrder /\ [][NextOrder]_vars

\* the latest of a set of times, the zero time for none
Latest(S) == IF S = {} THEN ZeroTime ELSE CHOOSE t \in S : \A u \in S : u <= t

TrialTimes(e) == {e.Trials[k] : k \in 1..Len(e.Trials)}

\* (LastExecuted, Id) of a before that of b
KeyBefore(a, b) ==
    \/ Latest(TrialTimes(a)) < Latest(TrialTimes(b))
    \/ Latest(TrialTimes(a)) = Latest(TrialTimes(b)) /\ a.Id < b.Id

\* C5: Less is a strict total order by (LastExecuted ascending, Id ascending):
\* irreflexive, asymmetric, transitive, two experiments unordered only with
\* equal LastExecuted and equal Id; a sorted list has the earlier
\* LastExecuted first and, among equals, the smaller Id first; LastExecuted
\* is the latest of the trials' times, the zero time without trials.
C5_LessIsTotalOrder ==
    /\ \A i \in 1..Len(es) :
        /\ ~ExperimentsLess(es, i, i)
        /\ LastExecuted(es[i]) = Latest(TrialTimes(es[i]))
    /\ \A i, j \in 1..Len(es) :
        /\ ExperimentsLess(es, i, j) => ~ExperimentsLess(es, j, i)
        /\ (~ExperimentsLess(es, i, j) /\ ~ExperimentsLess(es, j, i)) =>
              (LastExecuted(es[i]) = LastExecuted(es[j]) /\ es[i].Id = es[j].Id)
        /\ ExperimentsLess(es, i, j) <=> KeyBefore(es[i], es[j])
    /\ \A i, j, k \in 1..Len(es) :
        (ExperimentsLess(es, i, j) /\ ExperimentsLess(es, j, k)) => ExperimentsLess(es, i, k)
    /\ sorted => \A i, j \in 1..Len(es) : i < j => ~KeyBefore(es[j], es[i])

C5_Witness ==
    /\ sorted
    /\ es[1].Id = 3 /\ es[2].Id = 1 /\ es[3].Id = 5
    /\ es[1].Trials = <<>>
    /\ es[2].Trials = <<2, 1>>
    /\ es[3].Trials = <<2>>

\* ------------------------------------------------------------------------
\* experiments: the averages
\* ------------------------------------------------------------------------
Panic == "panic: runtime error: integer divide by zero"

NaN == "NaN"

\* a / b of two ints (or time.Durations): the quotient, or the run-time panic
IntDiv(a, b) == IF b = 0 THEN [fault |-> Panic, v |-> 0] ELSE [fault |-> Nil, v |-> a \div b]

\* float64(a) / float64(b), kept as the fraction
FloatDiv(a, b) == IF b = 0 THEN (IF a = 0 THEN NaN ELSE "Inf") ELSE [num |-> a, den |-> b]

\* a trial, seen through Duration, AvgEpochDuration(), len(Generations),
\* Solved() and Winner()
StatTrial(g, solved) ==
    [Duration |-> 10 * g, EpochDuration |-> 10, Generations |-> g, Solved |-> solved,
     Winner |-> IF solved THEN <<g + 2, g + 4, 100 * g, g>> ELSE <<0, 0, 0, 0>>]

StatTrials == {StatTrial(g, solved) : g \in {3, 4, 5}, solved \in BOOLEAN}

StatTrialLists == UNION {[1..n -> StatTrials] : n \in 0..MaxTrials}

RECURSIVE Sum(_, _, _)
Sum(ts, i, total) == IF i > Len(ts) THEN total ELSE Sum(ts, i + 1, total + ts[i])

ExperimentAvgTrialDuration(ts) ==
    IntDiv(Sum([i \in 1..Len(ts) |-> ts[i].Duration], 1, 0), Len(ts))

ExperimentAvgEpochDuration(ts) ==
    IntDiv(Sum([i \in 1..Len(ts) |-> ts[i].EpochDuration], 1, 0), Len(ts))

ExperimentAvgGenerationsPerTrial(ts) ==
    IntDiv(Sum([i \in 1..Len(ts) |-> ts[i].Generations], 1, 0), Len(ts))

ExperimentTrialsSolved(ts) ==
    Sum([i \in 1..Len(ts) |-> IF ts[i].Solved THEN 1 ELSE 0], 1, 0)

ExperimentAvgWinner(ts) ==
    LET w(k) == [i \in 1..Len(ts) |-> IF ts[i].Solved THEN ts[i].Winner[k] ELSE 0]
        count == Sum([i \in 1..Len(ts) |-> IF ts[i].Solved THEN 1 ELSE 0], 1, 0)
    IN  <<FloatDiv(Sum(w(1), 1, 0), count), FloatDiv(Sum(w(2), 1, 0), count),
          FloatDiv(Sum(w(3), 1, 0), count), FloatDiv(Sum(w(4), 1, 0), count)>>

InitAvg ==
    /\ IdleWriter /\ IdleCodec /\ IdleBest /\ IdleOrder
    /\ stats \in StatTrialLists
    /\ avg = [op |-> "none"]

AvgTrialDuration ==
    /\ LET r == ExperimentAvgTrialDuration(stats)
       IN  avg' = [op |-> "AvgTrialDuration", fault |-> r.fault, value |-> r.v]
    /\ UNCHANGED <<stats, writerVars, codecVars, bestVars, orderVars>>

AvgEpochDuration ==
    /\ LET r == ExperimentAvgEpochDuration(stats)
       IN  avg' = [op |-> "AvgEpochDuration", fault |-> r.fault, value |-> r.v]
    /\ UNCHANGED <<stats, writerVars, codecVars, bestVars, orderVars>>

AvgGenerationsPerTrial ==
    /\ LET r == ExperimentAvgGenerationsPerTrial(stats)
       IN  avg' = [op |-> "AvgGenerationsPerTrial", fault |-> r.fault, value |-> r.v]
    /\ UNCHANGED <<stats, writerVars, codecVars, bestVars, orderVars>>

TrialsSolved ==
    /\ avg' = [op |-> "TrialsSolved", fault |-> Nil, value |-> ExperimentTrialsSolved(stats)]
    /\ UNCHANGED <<stats, writerVars, codecVars, bestVars, orderVars>>

AvgWinner ==
    /\ avg' = [op |-> "AvgWinner", fault |-> Nil, value |-> ExperimentAvgWinner(stats)]
    /\ UNCHANGED <<stats, writerVars, codecVars, bestVars, orderVars>>

NextAvg ==
    \/ AvgTrialDuration
    \/ AvgEpochDuration
    \/ AvgGenerationsPerTrial
    \/ TrialsSolved
    \/ AvgWinner

SpecAvg == InitAvg /\ [][NextAvg]_vars

\* C8, as stated: every aggregation that divides by a count completes with a
\* value (or an explicit error) when the count is zero, never with a
\* division-by-zero fault.
C8_NoDivisionFault == avg.op # "none" => avg.fault = Nil

====
